---- MODULE Spec2Model ----
(***************************************************************************)
(* Model of osmium/io/compression.hpp: the CompressionFactory registry,    *)
(* the NoCompressor, the NoDecompressor and the DummyDecompressor, over a  *)
(* log of the platform operations they issue.                              *)
(***************************************************************************)
EXTENDS Integers, Sequences, FiniteSets, TLC

VARIABLES
    m_callbacks,   \* CompressionFactory::m_callbacks: file_compression -> callbacks_type
    tu_pc,         \* position of each translation unit's static initialisation
    comp,          \* the Compressor instance under observation
    dec,           \* the Decompressor instance under observation
    ops,           \* log of the platform operations issued so far, in order
    file,          \* content of the source behind the decompressor's descriptor
    fpos,          \* platform read position in that source
    last,          \* what the most recent call did and returned
    written,       \* sum of the lengths of the chunks of successful write() calls
    nclose,        \* number of times close() was entered on each instance
    firstReg,      \* per identifier, the triple of its first register_compression call
    reads,         \* the chunks returned by the read() calls that returned, in order
    samples        \* what a second thread saw in offset() and file_size(), in order

vars == <<m_callbacks, tu_pc, comp, dec, ops, file, fpos, last, written, nclose, firstReg,
          reads, samples>>

(***************************************************************************)
(* Bounds                                                                  *)
(***************************************************************************)
MaxCompOps == 2      \* write() is called while the log is shorter than this
MaxDecOps == 4       \* read() is called while the log has fewer other operations
MaxChunk == 1        \* longest chunk passed to write()
MaxFile == 2         \* longest source behind a descriptor or buffer
MaxClose == 2        \* explicit close() calls made on one instance
MaxReads == 3        \* read() calls that return, made on one instance
MaxSamples == 2      \* samples the second thread takes

(***************************************************************************)
(* Values                                                                  *)
(***************************************************************************)
Bytes == {"a", "b"}

RECURSIVE SeqsUpTo(_)
SeqsUpTo(n) ==
    IF n = 0 THEN {<<>>}
    ELSE LET S == SeqsUpTo(n - 1)
         IN  S \cup {Append(s, b) : s \in {t \in S : Len(t) = n - 1}, b \in Bytes}

Data == SeqsUpTo(MaxChunk)

\* the sources: one of each length, "abab..." so that order and position show
Sources == {[i \in 1 .. n |-> IF i % 2 = 1 THEN "a" ELSE "b"] : n \in 0 .. MaxFile}

\* descriptors handed to constructors: -1 is the invalid descriptor, 1 is stdout
FdSet == {-1, 1, 3}
StdoutFd == 1

\* osmium::io::fsync
fsync_yes == "yes"
fsync_no == "no"
FsyncSet == {fsync_yes, fsync_no}

\* osmium::io::file_compression
none == 0
gzip == 1
bzip2 == 2
Ids == {none, gzip, bzip2}

as_string(compression) ==
    CASE compression = none -> "none"
      [] compression = gzip -> "gzip"
      [] compression = bzip2 -> "bzip2"

\* constructor triples: the built-in one and those of other codec modules
NoEntry == "absent"
NoTriple == "NoCompressor/NoDecompressor"
ExtTriples == {"ext1", "ext2"}
Triples == {NoTriple} \cup ExtTriples
TUs == {"tu1", "tu2"}

\* errors
NoErr == "ok"
SysErr == "system_error"
UnsupportedErr == "unsupported_file_format_error"

input_buffer_size == 1024 * 1024

Min(a, b) == IF a < b THEN a ELSE b

(***************************************************************************)
(* Platform primitives (osmium/io/detail/read_write.hpp, osmium/util/file) *)
(* Each returns the operations it issued and whether it raised; `fail` is  *)
(* the platform's choice, and an invalid descriptor always fails.          *)
(***************************************************************************)
Op(name, fd, data, n, failed) ==
    [op |-> name, fd |-> fd, data |-> data, n |-> n, failed |-> failed]

Prim(name, fd, data, n, fail) ==
    [io |-> <<Op(name, fd, data, n, fd < 0 \/ fail)>>,
     raised |-> IF fd < 0 \/ fail THEN SysErr ELSE NoErr]

reliable_write(fd, data, fail) == Prim("write", fd, data, Len(data), fail)

reliable_fsync(fd, fail) == Prim("fsync", fd, <<>>, 0, fail)

reliable_close(fd, fail) == Prim("close", fd, <<>>, 0, fail)

\* osmium::file_size(fd): the size it reports is logged with the query
file_size_query(fd, size, fail) ==
    Prim("size", fd, <<>>, size, fail) @@ [size |-> size]

\* best effort: never raises
remove_buffered_pages(fd, offset) ==
    [io |-> <<Op("evict", fd, <<>>, offset, FALSE)>>, raised |-> NoErr]

\* remove_buffered_pages(fd) without an offset covers the whole file
WholeFile == -1

\* reads nread bytes at the read position; nread = 0 only at end of stream
reliable_read(fd, src, pos, nread, fail) ==
    IF fd < 0 \/ fail
    THEN [io |-> <<Op("read", fd, <<>>, input_buffer_size, TRUE)>>, raised |-> SysErr,
          data |-> <<>>, pos |-> pos]
    ELSE LET d == SubSeq(src, pos + 1, pos + nread)
         IN  [io |-> <<Op("read", fd, d, input_buffer_size, FALSE)>>, raised |-> NoErr,
              data |-> d, pos |-> pos + nread]

ReadSizes(src, pos) ==
    IF pos >= Len(src) THEN {0}
    ELSE 1 .. Min(Len(src) - pos, input_buffer_size)

(***************************************************************************)
(* CompressionFactory                                                      *)
(***************************************************************************)
\* as if written with insert_or_assign: a later registration replaces the entry
register_compression_assign(callbacks, compression, triple) ==
    [ret |-> callbacks[compression] = NoEntry,
     callbacks |-> [callbacks EXCEPT ![compression] = triple]]

\* std::map::insert: inserts only when the key is absent
register_compression(callbacks, compression, triple) ==
    IF callbacks[compression] = NoEntry
    THEN [ret |-> TRUE, callbacks |-> [callbacks EXCEPT ![compression] = triple]]
    ELSE [ret |-> FALSE, callbacks |-> callbacks]

\* as if written with a fallback to the built-in entry instead of the throw
find_callbacks_fallback(callbacks, compression) ==
    IF callbacks[compression] # NoEntry
    THEN [raised |-> NoErr, triple |-> callbacks[compression], msg |-> <<>>]
    ELSE [raised |-> NoErr, triple |-> callbacks[none], msg |-> <<>>]

find_callbacks(callbacks, compression) ==
    IF callbacks[compression] # NoEntry
    THEN [raised |-> NoErr, triple |-> callbacks[compression], msg |-> <<>>]
    ELSE [raised |-> UnsupportedErr, triple |-> NoEntry,
          msg |-> <<"Support for compression '", as_string(compression),
                    "' not compiled into this binary">>]

(***************************************************************************)
(* Instances                                                               *)
(***************************************************************************)
NullComp ==
    [class |-> "null", m_fd |-> -1, m_file_size |-> 0, m_fsync |-> fsync_no,
     fd0 |-> -1, triple |-> NoEntry]

\* NoCompressor(fd, sync)
NoCompressor(fd, sync) ==
    [class |-> "NoCompressor", m_fd |-> fd, m_file_size |-> 0, m_fsync |-> sync,
     fd0 |-> fd, triple |-> NoTriple]

\* a compressor made by another module's callback
ExtCompressor(t, fd, sync) ==
    [class |-> "Ext", m_fd |-> fd, m_file_size |-> 0, m_fsync |-> sync,
     fd0 |-> fd, triple |-> t]

do_fsync(c) == c.m_fsync = fsync_yes

\* as if the counter were advanced before the write instead of after it
NoCompressor_write_countfirst(c, data, wfail) ==
    LET w == reliable_write(c.m_fd, data, wfail)
    IN  [c |-> [c EXCEPT !.m_file_size = @ + Len(data)], io |-> w.io,
         raised |-> w.raised]

\* as if a failed platform write were tried once more
NoCompressor_write_retry(c, data, wfail) ==
    LET w == reliable_write(c.m_fd, data, wfail)
        v == reliable_write(c.m_fd, data, FALSE)
    IN  IF w.raised = NoErr
        THEN [c |-> [c EXCEPT !.m_file_size = @ + Len(data)],
              io |-> w.io, raised |-> NoErr]
        ELSE IF v.raised # NoErr
        THEN [c |-> c, io |-> w.io \o v.io, raised |-> v.raised]
        ELSE [c |-> [c EXCEPT !.m_file_size = @ + Len(data)],
              io |-> w.io \o v.io, raised |-> NoErr]

\* as if the chunk were handed to the platform without its last byte
NoCompressor_write_short(c, data, wfail) ==
    LET w == reliable_write(c.m_fd, SubSeq(data, 1, Len(data) - 1), wfail)
    IN  IF w.raised # NoErr
        THEN [c |-> c, io |-> w.io, raised |-> w.raised]
        ELSE [c |-> [c EXCEPT !.m_file_size = @ + Len(data)],
              io |-> w.io, raised |-> NoErr]

\* NoCompressor::write
NoCompressor_write(c, data, wfail) ==
    LET w == reliable_write(c.m_fd, data, wfail)
    IN  IF w.raised # NoErr
        THEN [c |-> c, io |-> w.io, raised |-> w.raised]
        ELSE [c |-> [c EXCEPT !.m_file_size = @ + Len(data)],
              io |-> w.io, raised |-> NoErr]

\* as if m_fd were not reset
NoCompressor_close_keepfd(c, ffail, cfail) ==
    IF c.m_fd >= 0
    THEN LET fd == c.m_fd
             s  == IF do_fsync(c) THEN reliable_fsync(fd, ffail)
                   ELSE [io |-> <<>>, raised |-> NoErr]
             k  == reliable_close(fd, cfail)
         IN  IF fd = StdoutFd
             THEN [c |-> c, io |-> <<>>, raised |-> NoErr]
             ELSE IF s.raised # NoErr
             THEN [c |-> c, io |-> s.io, raised |-> s.raised]
             ELSE [c |-> c, io |-> s.io \o k.io, raised |-> k.raised]
    ELSE [c |-> c, io |-> <<>>, raised |-> NoErr]

\* as if the test for stdout were missing
NoCompressor_close_nostdout(c, ffail, cfail) ==
    IF c.m_fd >= 0
    THEN LET fd == c.m_fd
             c1 == [c EXCEPT !.m_fd = -1]
             s  == IF do_fsync(c) THEN reliable_fsync(fd, ffail)
                   ELSE [io |-> <<>>, raised |-> NoErr]
             k  == reliable_close(fd, cfail)
         IN  IF s.raised # NoErr
             THEN [c |-> c1, io |-> s.io, raised |-> s.raised]
             ELSE [c |-> c1, io |-> s.io \o k.io, raised |-> k.raised]
    ELSE [c |-> c, io |-> <<>>, raised |-> NoErr]

\* as if the descriptor were closed first and synced afterwards
NoCompressor_close_synclast(c, ffail, cfail) ==
    IF c.m_fd >= 0
    THEN LET fd == c.m_fd
             c1 == [c EXCEPT !.m_fd = -1]
             s  == IF do_fsync(c) THEN reliable_fsync(fd, ffail)
                   ELSE [io |-> <<>>, raised |-> NoErr]
             k  == reliable_close(fd, cfail)
         IN  IF fd = StdoutFd
             THEN [c |-> c1, io |-> <<>>, raised |-> NoErr]
             ELSE IF k.raised # NoErr
             THEN [c |-> c1, io |-> k.io, raised |-> k.raised]
             ELSE [c |-> c1, io |-> k.io \o s.io, raised |-> s.raised]
    ELSE [c |-> c, io |-> <<>>, raised |-> NoErr]

\* NoCompressor::close
NoCompressor_close(c, ffail, cfail) ==
    IF c.m_fd >= 0
    THEN LET fd == c.m_fd
             c1 == [c EXCEPT !.m_fd = -1]
             s  == IF do_fsync(c) THEN reliable_fsync(fd, ffail)
                   ELSE [io |-> <<>>, raised |-> NoErr]
             k  == reliable_close(fd, cfail)
         IN  IF fd = StdoutFd
             THEN [c |-> c1, io |-> <<>>, raised |-> NoErr]
             ELSE IF s.raised # NoErr
             THEN [c |-> c1, io |-> s.io, raised |-> s.raised]
             ELSE [c |-> c1, io |-> s.io \o k.io, raised |-> k.raised]
    ELSE [c |-> c, io |-> <<>>, raised |-> NoErr]

\* NoCompressor::file_size
NoCompressor_file_size(c) == c.m_file_size

\* as if the destructor called close() without the try / catch
NoCompressor_dtor_nocatch(c, ffail, cfail) ==
    LET r == NoCompressor_close(c, ffail, cfail)
    IN  [c |-> [r.c EXCEPT !.class = "destroyed"], io |-> r.io, raised |-> r.raised]

\* NoCompressor::~NoCompressor: close() inside try / catch (...)
NoCompressor_dtor(c, ffail, cfail) ==
    LET r == NoCompressor_close(c, ffail, cfail)
    IN  [c |-> [r.c EXCEPT !.class = "destroyed"], io |-> r.io, raised |-> NoErr]

(***************************************************************************)
(* Decompressors                                                           *)
(***************************************************************************)
nullptr == 0
BufPtr == 1

NullDec ==
    [class |-> "null", m_fd |-> -1, m_buffer |-> nullptr, m_buffer_size |-> 0,
     m_offset |-> 0, file_size |-> 0, offset |-> 0, want |-> FALSE,
     fd0 |-> -1, triple |-> NoEntry]

\* NoDecompressor(fd)
NoDecompressor_fd(fd) ==
    [NullDec EXCEPT !.class = "NoDecompressor", !.m_fd = fd, !.fd0 = fd,
                    !.triple = NoTriple]

\* NoDecompressor(buffer, size)
NoDecompressor_buffer(buffer, size) ==
    [NullDec EXCEPT !.class = "NoDecompressor", !.m_buffer = buffer,
                    !.m_buffer_size = size, !.triple = NoTriple]

\* DummyDecompressor()
DummyDecompressor == [NullDec EXCEPT !.class = "DummyDecompressor"]

\* a decompressor made by another module's callback
ExtDecompressor(t, fd) == [NullDec EXCEPT !.class = "Ext", !.fd0 = fd, !.triple = t]

\* Decompressor::set_file_size / set_offset / set_want_buffered_pages_removed
set_file_size(d, size) == [d EXCEPT !.file_size = size]
set_offset(d, offset) == [d EXCEPT !.offset = offset]
set_want_buffered_pages_removed(d, value) == [d EXCEPT !.want = value]
want_buffered_pages_removed(d) == d.want

\* as if DummyDecompressor did not override is_real
is_real_base(d) == TRUE

\* Decompressor::is_real and its override in DummyDecompressor
is_real(d) == d.class # "DummyDecompressor"

\* as if m_buffer_size were not reset: the buffer is returned again and again
NoDecompressor_read_again(d, src, pos, nread, rfail) ==
    IF d.m_buffer # nullptr
    THEN LET size == d.m_buffer_size
             buffer == IF size # 0 THEN SubSeq(src, 1, size) ELSE <<>>
             d1 == [d EXCEPT !.m_offset = @ + Len(buffer)]
         IN  [d |-> set_offset(d1, d1.m_offset), io |-> <<>>, raised |-> NoErr,
              data |-> buffer, pos |-> pos]
    ELSE LET r == reliable_read(d.m_fd, src, pos, nread, rfail)
         IN  [d |-> d, io |-> r.io, raised |-> r.raised, data |-> r.data, pos |-> r.pos]

\* as if the offset were advanced by the size asked for, not the size read
NoDecompressor_read_asked(d, src, pos, nread, rfail) ==
    IF d.m_buffer # nullptr
    THEN LET size == d.m_buffer_size
             buffer == IF size # 0 THEN SubSeq(src, 1, size) ELSE <<>>
             d1 == [d EXCEPT !.m_buffer_size = 0, !.m_offset = @ + Len(buffer)]
         IN  [d |-> set_offset(d1, d1.m_offset), io |-> <<>>, raised |-> NoErr,
              data |-> buffer, pos |-> pos]
    ELSE LET e == IF want_buffered_pages_removed(d)
                  THEN remove_buffered_pages(d.m_fd, d.m_offset).io
                  ELSE <<>>
             r == reliable_read(d.m_fd, src, pos, nread, rfail)
             d1 == [d EXCEPT !.m_offset = @ + input_buffer_size]
         IN  IF r.raised # NoErr
             THEN [d |-> d, io |-> e \o r.io, raised |-> r.raised,
                   data |-> <<>>, pos |-> pos]
             ELSE [d |-> set_offset(d1, d1.m_offset), io |-> e \o r.io,
                   raised |-> NoErr, data |-> r.data, pos |-> r.pos]

\* as if the hint were issued after the platform read, with the advanced offset
NoDecompressor_read_evictlate(d, src, pos, nread, rfail) ==
    IF d.m_buffer # nullptr
    THEN LET size == d.m_buffer_size
             buffer == IF size # 0 THEN SubSeq(src, 1, size) ELSE <<>>
             d1 == [d EXCEPT !.m_buffer_size = 0, !.m_offset = @ + Len(buffer)]
         IN  [d |-> set_offset(d1, d1.m_offset), io |-> <<>>, raised |-> NoErr,
              data |-> buffer, pos |-> pos]
    ELSE LET r == reliable_read(d.m_fd, src, pos, nread, rfail)
             d1 == [d EXCEPT !.m_offset = @ + Len(r.data)]
             e == IF want_buffered_pages_removed(d)
                  THEN remove_buffered_pages(d.m_fd, d1.m_offset).io
                  ELSE <<>>
         IN  IF r.raised # NoErr
             THEN [d |-> d, io |-> r.io, raised |-> r.raised,
                   data |-> <<>>, pos |-> pos]
             ELSE [d |-> set_offset(d1, d1.m_offset), io |-> r.io \o e,
                   raised |-> NoErr, data |-> r.data, pos |-> r.pos]

\* as if set_offset were given the size of the chunk, not the running total
NoDecompressor_read_chunksize(d, src, pos, nread, rfail) ==
    IF d.m_buffer # nullptr
    THEN LET size == d.m_buffer_size
             buffer == IF size # 0 THEN SubSeq(src, 1, size) ELSE <<>>
             d1 == [d EXCEPT !.m_buffer_size = 0, !.m_offset = @ + Len(buffer)]
         IN  [d |-> set_offset(d1, Len(buffer)), io |-> <<>>, raised |-> NoErr,
              data |-> buffer, pos |-> pos]
    ELSE LET e == IF want_buffered_pages_removed(d)
                  THEN remove_buffered_pages(d.m_fd, d.m_offset).io
                  ELSE <<>>
             r == reliable_read(d.m_fd, src, pos, nread, rfail)
             d1 == [d EXCEPT !.m_offset = @ + Len(r.data)]
         IN  IF r.raised # NoErr
             THEN [d |-> d, io |-> e \o r.io, raised |-> r.raised,
                   data |-> <<>>, pos |-> pos]
             ELSE [d |-> set_offset(d1, Len(r.data)), io |-> e \o r.io,
                   raised |-> NoErr, data |-> r.data, pos |-> r.pos]

\* NoDecompressor::read
NoDecompressor_read(d, src, pos, nread, rfail) ==
    IF d.m_buffer # nullptr
    THEN LET size == d.m_buffer_size
             buffer == IF size # 0 THEN SubSeq(src, 1, size) ELSE <<>>
             d1 == [d EXCEPT !.m_buffer_size = 0, !.m_offset = @ + Len(buffer)]
         IN  [d |-> set_offset(d1, d1.m_offset), io |-> <<>>, raised |-> NoErr,
              data |-> buffer, pos |-> pos]
    ELSE LET e == IF want_buffered_pages_removed(d)
                  THEN remove_buffered_pages(d.m_fd, d.m_offset).io
                  ELSE <<>>
             r == reliable_read(d.m_fd, src, pos, nread, rfail)
             d1 == [d EXCEPT !.m_offset = @ + Len(r.data)]
         IN  IF r.raised # NoErr
             THEN [d |-> d, io |-> e \o r.io, raised |-> r.raised,
                   data |-> <<>>, pos |-> pos]
             ELSE [d |-> set_offset(d1, d1.m_offset), io |-> e \o r.io,
                   raised |-> NoErr, data |-> r.data, pos |-> r.pos]

\* as if m_fd were not reset
NoDecompressor_close_keepfd(d, cfail) ==
    IF d.m_fd >= 0
    THEN LET e == IF want_buffered_pages_removed(d)
                  THEN remove_buffered_pages(d.m_fd, WholeFile).io
                  ELSE <<>>
             k  == reliable_close(d.m_fd, cfail)
         IN  [d |-> d, io |-> e \o k.io, raised |-> k.raised]
    ELSE [d |-> d, io |-> <<>>, raised |-> NoErr]

\* NoDecompressor::close
NoDecompressor_close(d, cfail) ==
    IF d.m_fd >= 0
    THEN LET e == IF want_buffered_pages_removed(d)
                  THEN remove_buffered_pages(d.m_fd, WholeFile).io
                  ELSE <<>>
             fd == d.m_fd
             k  == reliable_close(fd, cfail)
         IN  [d |-> [d EXCEPT !.m_fd = -1], io |-> e \o k.io, raised |-> k.raised]
    ELSE [d |-> d, io |-> <<>>, raised |-> NoErr]

\* NoDecompressor::~NoDecompressor: close() inside try / catch (...)
NoDecompressor_dtor(d, cfail) ==
    LET r == NoDecompressor_close(d, cfail)
    IN  [d |-> [r.d EXCEPT !.class = "destroyed"], io |-> r.io, raised |-> NoErr]

\* DummyDecompressor::read
DummyDecompressor_read(d) ==
    [d |-> d, io |-> <<>>, raised |-> NoErr, data |-> <<>>]

\* DummyDecompressor::close
DummyDecompressor_close(d) == [d |-> d, io |-> <<>>, raised |-> NoErr]

\* ~DummyDecompressor() = default
DummyDecompressor_dtor(d) ==
    [d |-> [d EXCEPT !.class = "destroyed"], io |-> <<>>, raised |-> NoErr]

(***************************************************************************)
(* Calls.  Each action is one call made by the program; `last` records the *)
(* call, what it raised and returned, and the state it started from.       *)
(***************************************************************************)
\* triple: the triple passed to register_compression, or the one whose callback
\* a create call invoked
Call(op, id, raised, msg, retb, data, triple) ==
    [op |-> op, id |-> id, pre |-> Len(ops), raised |-> raised, msg |-> msg,
     retb |-> retb, data |-> data, triple |-> triple,
     reg0 |-> m_callbacks, nclose |-> nclose,
     cfd |-> comp.m_fd, dfd |-> dec.m_fd, want |-> dec.want,
     c0 |-> comp, d0 |-> dec]

NoCall == Call("none", none, NoErr, <<>>, FALSE, <<>>, NoEntry)

\* static initialisation is over: main() runs
Running == \A tu \in TUs : tu_pc[tu] = "done"

CompBudget == Len(ops) < MaxCompOps
DecBudget == Len(SelectSeq(ops, LAMBDA o : o.op \notin {"write", "fsync"})) < MaxDecOps

\* a run is followed up to the first instance the factory makes, and its end
NoInstance == comp.class = "null" /\ dec.class = "null"

Registered(id, triple, r) ==
    /\ m_callbacks' = r.callbacks
    /\ firstReg' = IF firstReg[id] = NoEntry
                   THEN [firstReg EXCEPT ![id] = triple] ELSE firstReg
    /\ last' = Call("register_compression", id, NoErr, <<>>, r.ret, <<>>, triple)
    /\ UNCHANGED <<comp, dec, ops, file, fpos, written, nclose, reads, samples>>

\* as if the initialiser of the never-used variable were dropped
StaticInitBuiltin_dropped(tu) ==
    /\ tu_pc[tu] = "builtin"
    /\ tu_pc' = [tu_pc EXCEPT ![tu] = "own"]
    /\ last' = NoCall
    /\ UNCHANGED <<m_callbacks, firstReg, comp, dec, ops, file, fpos, written, nclose,
                 reads, samples>>

\* detail::registered_no_compression: every translation unit that includes the
\* header registers the built-in triple before anything else it defines
StaticInitBuiltin(tu) ==
    /\ tu_pc[tu] = "builtin"
    /\ tu_pc' = [tu_pc EXCEPT ![tu] = "own"]
    /\ Registered(none, NoTriple, register_compression(m_callbacks, none, NoTriple))

\* the registration a codec module does in its own static initialiser
StaticInitOwn(tu) ==
    /\ tu_pc[tu] = "own"
    /\ tu_pc' = [tu_pc EXCEPT ![tu] = "done"]
    /\ \E id \in Ids, t \in ExtTriples :
          Registered(id, t, register_compression(m_callbacks, id, t))

\* CompressionFactory::register_compression called from running code
RegisterCompression ==
    /\ Running
    /\ UNCHANGED tu_pc
    /\ \E id \in Ids, t \in Triples :
          Registered(id, t, register_compression(m_callbacks, id, t))

\* CompressionFactory::create_compressor
CreateCompressor ==
    /\ Running /\ NoInstance
    /\ \E id \in Ids, fd \in FdSet, sync \in FsyncSet :
          LET f == find_callbacks(m_callbacks, id)
          IN  IF f.raised # NoErr
              THEN /\ last' = Call("create_compressor", id, f.raised, f.msg,
                                   FALSE, <<>>, NoEntry)
                   /\ UNCHANGED <<comp, written, nclose>>
              ELSE /\ comp' = IF f.triple = NoTriple THEN NoCompressor(fd, sync)
                              ELSE ExtCompressor(f.triple, fd, sync)
                   /\ written' = 0
                   /\ nclose' = [nclose EXCEPT !.c = 0]
                   /\ last' = Call("create_compressor", id, NoErr, <<>>,
                                   TRUE, <<>>, f.triple)
    /\ UNCHANGED <<m_callbacks, tu_pc, dec, ops, file, fpos, firstReg, reads, samples>>

\* ~Decompressor of whatever class the instance has
Decompressor_dtor(d, cfail) ==
    CASE d.class = "NoDecompressor" -> NoDecompressor_dtor(d, cfail)
      [] d.class = "DummyDecompressor" -> DummyDecompressor_dtor(d)
      [] OTHER -> [d |-> [d EXCEPT !.class = "destroyed"], io |-> <<>>,
                   raised |-> NoErr]

\* as if the new instance were held by a plain pointer while its size is looked up
create_decompressor_fd_leak(callbacks, id, fd, src, known, sfail, cfail) ==
    LET f == find_callbacks(callbacks, id)
        p == IF f.triple = NoTriple THEN NoDecompressor_fd(fd)
             ELSE ExtDecompressor(f.triple, fd)
        q == file_size_query(fd, IF known THEN Len(src) ELSE 0, sfail)
    IN  IF f.raised # NoErr
        THEN [d |-> NullDec, made |-> FALSE, io |-> <<>>, raised |-> f.raised,
              msg |-> f.msg, invoked |-> NoEntry]
        ELSE IF q.raised # NoErr
        THEN [d |-> [p EXCEPT !.class = "destroyed"], made |-> TRUE, io |-> q.io,
              raised |-> q.raised, msg |-> <<>>, invoked |-> f.triple]
        ELSE [d |-> set_file_size(p, q.size), made |-> TRUE,
              io |-> q.io, raised |-> NoErr, msg |-> <<>>, invoked |-> f.triple]

\* as if the size of the source were looked up but not stored
create_decompressor_fd_nosize(callbacks, id, fd, src, known, sfail, cfail) ==
    LET f == find_callbacks(callbacks, id)
        p == IF f.triple = NoTriple THEN NoDecompressor_fd(fd)
             ELSE ExtDecompressor(f.triple, fd)
        q == file_size_query(fd, IF known THEN Len(src) ELSE 0, sfail)
        x == Decompressor_dtor(p, cfail)
    IN  IF f.raised # NoErr
        THEN [d |-> NullDec, made |-> FALSE, io |-> <<>>, raised |-> f.raised,
              msg |-> f.msg, invoked |-> NoEntry]
        ELSE IF q.raised # NoErr
        THEN [d |-> x.d, made |-> TRUE, io |-> q.io \o x.io, raised |-> q.raised,
              msg |-> <<>>, invoked |-> f.triple]
        ELSE [d |-> p, made |-> TRUE,
              io |-> q.io, raised |-> NoErr, msg |-> <<>>, invoked |-> f.triple]

\* CompressionFactory::create_decompressor(compression, fd)
create_decompressor_fd(callbacks, id, fd, src, known, sfail, cfail) ==
    LET f == find_callbacks(callbacks, id)
        p == IF f.triple = NoTriple THEN NoDecompressor_fd(fd)
             ELSE ExtDecompressor(f.triple, fd)
        q == file_size_query(fd, IF known THEN Len(src) ELSE 0, sfail)
        x == Decompressor_dtor(p, cfail)
    IN  IF f.raised # NoErr
        THEN [d |-> NullDec, made |-> FALSE, io |-> <<>>, raised |-> f.raised,
              msg |-> f.msg, invoked |-> NoEntry]
        ELSE IF q.raised # NoErr
        THEN [d |-> x.d, made |-> TRUE, io |-> q.io \o x.io, raised |-> q.raised,
              msg |-> <<>>, invoked |-> f.triple]
        ELSE [d |-> set_file_size(p, q.size), made |-> TRUE,
              io |-> q.io, raised |-> NoErr, msg |-> <<>>, invoked |-> f.triple]

CreateDecompressorFd ==
    /\ Running /\ NoInstance
    /\ \E id \in Ids, fd \in FdSet, src \in Sources, known, sfail, cfail \in BOOLEAN :
          LET r == create_decompressor_fd(m_callbacks, id, fd, src, known, sfail, cfail)
          IN  /\ ops' = ops \o r.io
              /\ last' = Call("create_decompressor_fd", id, r.raised, r.msg,
                              r.raised = NoErr, <<>>, r.invoked)
              /\ IF r.made
                 THEN /\ dec' = r.d
                      /\ file' = src
                      /\ fpos' = 0
                      /\ nclose' = [nclose EXCEPT !.d = IF r.raised # NoErr THEN 1 ELSE 0]
                 ELSE UNCHANGED <<dec, file, fpos, nclose>>
    /\ UNCHANGED <<m_callbacks, tu_pc, comp, written, firstReg, reads, samples>>

\* CompressionFactory::create_decompressor(compression, buffer, size)
create_decompressor_buffer(callbacks, id, buffer, size) ==
    LET f == find_callbacks(callbacks, id)
    IN  IF f.raised # NoErr
        THEN [d |-> NullDec, made |-> FALSE, raised |-> f.raised, msg |-> f.msg,
              invoked |-> NoEntry]
        ELSE [d |-> IF f.triple = NoTriple THEN NoDecompressor_buffer(buffer, size)
                    ELSE ExtDecompressor(f.triple, -1),
              made |-> TRUE, raised |-> NoErr, msg |-> <<>>, invoked |-> f.triple]

CreateDecompressorBuffer ==
    /\ Running /\ NoInstance
    /\ \E id \in Ids, src \in Sources, buffer \in {nullptr, BufPtr} :
          LET r == create_decompressor_buffer(m_callbacks, id, buffer, Len(src))
          IN  /\ last' = Call("create_decompressor_buffer", id, r.raised, r.msg,
                              r.raised = NoErr, <<>>, r.invoked)
              /\ IF r.made
                 THEN /\ dec' = r.d
                      /\ file' = src
                      /\ fpos' = 0
                      /\ nclose' = [nclose EXCEPT !.d = 0]
                 ELSE UNCHANGED <<dec, file, fpos, nclose>>
    /\ UNCHANGED <<m_callbacks, tu_pc, comp, ops, written, firstReg, reads, samples>>

(***************************************************************************)
(* Calls on the instances                                                  *)
(***************************************************************************)
\* NoCompressor::write(data)
CompWrite ==
    /\ comp.class = "NoCompressor" /\ CompBudget
    /\ \E data \in Data, wfail \in BOOLEAN :
          LET r == NoCompressor_write(comp, data, wfail)
          IN  /\ comp' = r.c
              /\ ops' = ops \o r.io
              /\ written' = IF r.raised = NoErr THEN written + Len(data) ELSE written
              /\ last' = Call("Compressor::write", none, r.raised, <<>>, FALSE,
                              data, NoEntry)
    /\ UNCHANGED <<m_callbacks, tu_pc, dec, file, fpos, nclose, firstReg, reads, samples>>

\* NoCompressor::close()
CompClose ==
    /\ comp.class = "NoCompressor" /\ nclose.c < MaxClose
    /\ \E ffail, cfail \in BOOLEAN :
          LET r == NoCompressor_close(comp, ffail, cfail)
          IN  /\ comp' = r.c
              /\ ops' = ops \o r.io
              /\ last' = Call("Compressor::close", none, r.raised, <<>>, FALSE,
                              <<>>, NoEntry)
    /\ nclose' = [nclose EXCEPT !.c = @ + 1]
    /\ UNCHANGED <<m_callbacks, tu_pc, dec, file, fpos, written, firstReg, reads, samples>>

\* the owner drops the Compressor: ~NoCompressor, or another module's destructor
CompDestroy ==
    /\ comp.class \in {"NoCompressor", "Ext"}
    /\ \E ffail, cfail \in BOOLEAN :
          LET r == IF comp.class = "NoCompressor"
                   THEN NoCompressor_dtor(comp, ffail, cfail)
                   ELSE [c |-> [comp EXCEPT !.class = "destroyed"], io |-> <<>>,
                         raised |-> NoErr]
          IN  /\ comp' = r.c
              /\ ops' = ops \o r.io
              /\ last' = Call("Compressor::dtor", none, r.raised, <<>>, FALSE,
                              <<>>, NoEntry)
    /\ nclose' = [nclose EXCEPT !.c = @ + 1]
    /\ UNCHANGED <<m_callbacks, tu_pc, dec, file, fpos, written, firstReg, reads, samples>>

\* Decompressor::read() on a NoDecompressor or a DummyDecompressor
DecRead ==
    /\ dec.class \in {"NoDecompressor", "DummyDecompressor"}
    /\ DecBudget /\ Len(reads) < MaxReads
    /\ \E nread \in ReadSizes(file, fpos), rfail \in BOOLEAN :
          LET r == IF dec.class = "NoDecompressor"
                   THEN NoDecompressor_read(dec, file, fpos, nread, rfail)
                   ELSE DummyDecompressor_read(dec) @@ [pos |-> fpos]
          IN  /\ dec' = r.d
              /\ ops' = ops \o r.io
              /\ fpos' = r.pos
              /\ reads' = IF r.raised = NoErr THEN Append(reads, r.data) ELSE reads
              /\ last' = Call("Decompressor::read", none, r.raised, <<>>, FALSE,
                              r.data, NoEntry)
    /\ UNCHANGED <<m_callbacks, tu_pc, comp, file, written, nclose, firstReg, samples>>

\* Decompressor::close() on a NoDecompressor or a DummyDecompressor
DecClose ==
    /\ dec.class \in {"NoDecompressor", "DummyDecompressor"} /\ nclose.d < MaxClose
    /\ \E cfail \in BOOLEAN :
          LET r == IF dec.class = "NoDecompressor"
                   THEN NoDecompressor_close(dec, cfail)
                   ELSE DummyDecompressor_close(dec)
          IN  /\ dec' = r.d
              /\ ops' = ops \o r.io
              /\ last' = Call("Decompressor::close", none, r.raised, <<>>, FALSE,
                              <<>>, NoEntry)
    /\ nclose' = [nclose EXCEPT !.d = @ + 1]
    /\ UNCHANGED <<m_callbacks, tu_pc, comp, file, fpos, written, firstReg, reads, samples>>

\* the owner drops the Decompressor
DecDestroy ==
    /\ dec.class \in {"NoDecompressor", "DummyDecompressor", "Ext"}
    /\ \E cfail \in BOOLEAN :
          LET r == Decompressor_dtor(dec, cfail)
          IN  /\ dec' = r.d
              /\ ops' = ops \o r.io
              /\ last' = Call("Decompressor::dtor", none, r.raised, <<>>, FALSE,
                              <<>>, NoEntry)
    /\ nclose' = [nclose EXCEPT !.d = @ + 1]
    /\ UNCHANGED <<m_callbacks, tu_pc, comp, file, fpos, written, firstReg, reads, samples>>

\* Decompressor::set_want_buffered_pages_removed(value)
DecSetWant ==
    /\ dec.class \in {"NoDecompressor", "DummyDecompressor"}
    /\ \E value \in BOOLEAN :
          /\ value # want_buffered_pages_removed(dec)
          /\ dec' = set_want_buffered_pages_removed(dec, value)
    /\ last' = Call("set_want_buffered_pages_removed", none, NoErr, <<>>, FALSE,
                    <<>>, NoEntry)
    /\ UNCHANGED <<m_callbacks, tu_pc, comp, ops, file, fpos, written, nclose, firstReg,
                 reads, samples>>

\* the content of the file behind fd: the bytes of the platform writes that succeeded
RECURSIVE Delivered(_, _)
Delivered(log, fd) ==
    IF log = <<>> THEN <<>>
    ELSE IF log[1].op = "write" /\ log[1].fd = fd /\ ~log[1].failed
         THEN log[1].data \o Delivered(Tail(log), fd)
         ELSE Delivered(Tail(log), fd)

\* the file a destroyed NoCompressor wrote is opened again, or loaded into
\* memory, and handed to a NoDecompressor; of the log, the writes that reached
\* the file are kept
Reopen ==
    /\ comp.class = "destroyed" /\ comp.fd0 = 3
    /\ dec.class = "null"
    /\ file' = Delivered(ops, comp.fd0)
    /\ fpos' = 0
    /\ \E inmemory \in BOOLEAN :
          dec' = IF inmemory THEN NoDecompressor_buffer(BufPtr, Len(file'))
                 ELSE NoDecompressor_fd(3)
    /\ nclose' = [nclose EXCEPT !.d = 0]
    /\ ops' = SelectSeq(ops, LAMBDA o : o.op = "write" /\ o.fd = comp.fd0 /\ ~o.failed)
    /\ last' = [Call("reopen", none, NoErr, <<>>, FALSE, <<>>, NoEntry)
                    EXCEPT !.pre = Len(ops')]
    /\ UNCHANGED <<m_callbacks, tu_pc, comp, written, firstReg, reads, samples>>

\* a read() has returned empty: the owner has seen the end of the stream
SeenEnd == \E i \in 1 .. Len(reads) : reads[i] = <<>>

\* a second thread loads the atomic counters: Decompressor::offset(), file_size()
Sample ==
    /\ dec.class \in {"NoDecompressor", "DummyDecompressor"}
    /\ Len(samples) < MaxSamples
    /\ samples' = Append(samples, [offset |-> dec.offset, file_size |-> dec.file_size,
                                   eos |-> SeenEnd])
    /\ UNCHANGED <<m_callbacks, tu_pc, comp, dec, ops, file, fpos, last, written, nclose,
                   firstReg, reads>>

(***************************************************************************)
(* Specifications                                                          *)
(***************************************************************************)
EmptyRegistry == [id \in Ids |-> NoEntry]

\* the registry of a program that links no other codec module
BuiltinRegistry == [EmptyRegistry EXCEPT ![none] = NoTriple]

InitCommon ==
    /\ file = <<>>
    /\ fpos = 0
    /\ written = 0
    /\ nclose = [c |-> 0, d |-> 0]
    /\ reads = <<>>
    /\ samples = <<>>

\* SpecReg: the factory from program start, its instances made and dropped
InitReg ==
    /\ m_callbacks = EmptyRegistry
    /\ firstReg = EmptyRegistry
    /\ tu_pc = [tu \in TUs |-> "builtin"]
    /\ comp = NullComp
    /\ dec = NullDec
    /\ ops = <<>>
    /\ InitCommon
    /\ last = NoCall

NextReg ==
    \/ \E tu \in TUs : StaticInitBuiltin(tu)
    \/ \E tu \in TUs : StaticInitOwn(tu)
    \/ RegisterCompression
    \/ CreateCompressor
    \/ CreateDecompressorFd
    \/ CreateDecompressorBuffer
    \/ CompDestroy
    \/ DecDestroy

SpecReg == InitReg /\ [][NextReg]_vars

\* SpecComp: one NoCompressor from its construction to its destruction
InitComp ==
    /\ m_callbacks = BuiltinRegistry
    /\ firstReg = BuiltinRegistry
    /\ tu_pc = [tu \in TUs |-> "done"]
    /\ \E fd \in FdSet, sync \in FsyncSet : comp = NoCompressor(fd, sync)
    /\ dec = NullDec
    /\ ops = <<>>
    /\ InitCommon
    /\ last = NoCall

NextComp ==
    \/ CompWrite
    \/ CompClose
    \/ CompDestroy

SpecComp == InitComp /\ [][NextComp]_vars

\* SpecDecomp: one Decompressor from its construction to its destruction
InitDecomp ==
    /\ m_callbacks = BuiltinRegistry
    /\ firstReg = BuiltinRegistry
    /\ tu_pc = [tu \in TUs |-> "done"]
    /\ comp = NullComp
    /\ fpos = 0
    /\ written = 0
    /\ nclose = [c |-> 0, d |-> 0]
    /\ reads = <<>>
    /\ samples = <<>>
    /\ \E src \in Sources :
          /\ file = src
          /\ \/ \E fd \in FdSet : dec = NoDecompressor_fd(fd) /\ ops = <<>>
             \/ \E fd \in FdSet, known \in BOOLEAN :
                   LET r == create_decompressor_fd(BuiltinRegistry, none, fd, src,
                                                   known, FALSE, FALSE)
                   IN  r.raised = NoErr /\ dec = r.d /\ ops = r.io
             \/ dec = NoDecompressor_buffer(BufPtr, Len(src)) /\ ops = <<>>
             \/ src = <<>> /\ dec = NoDecompressor_buffer(nullptr, 0) /\ ops = <<>>
             \/ src = <<>> /\ dec = DummyDecompressor /\ ops = <<>>
    /\ last = NoCall

NextDecomp ==
    \/ DecRead
    \/ DecClose
    \/ DecDestroy
    \/ DecSetWant

SpecDecomp == InitDecomp /\ [][NextDecomp]_vars

\* SpecInst: one instance of either kind from its construction to its destruction
InitInst == InitComp \/ InitDecomp

NextInst == NextComp \/ NextDecomp

SpecInst == InitInst /\ [][NextInst]_vars

(***************************************************************************)
(* Properties                                                              *)
(***************************************************************************)
\* the platform operations issued by the most recent call
Issued == SubSeq(ops, last.pre + 1, Len(ops))

CountOps(name) == Cardinality({i \in 1 .. Len(ops) : ops[i].op = name})

CountOpsOn(name, fd) ==
    Cardinality({i \in 1 .. Len(ops) : ops[i].op = name /\ ops[i].fd = fd})

CreateOps == {"create_compressor", "create_decompressor_fd", "create_decompressor_buffer"}

\* the name by which an error message refers to an identifier
IdName == [id \in Ids |-> IF id = 0 THEN "none" ELSE IF id = 1 THEN "gzip" ELSE "bzip2"]

\* C1: the first register_compression for an identifier returns true and stores
\* its triple; every later one returns false, raises nothing and leaves the whole
\* registry as it was; a create call invokes the callbacks of the first
\* registration of its identifier.
C1_FirstRegistrationWins ==
    /\ last.op = "register_compression" =>
          /\ last.raised = NoErr
          /\ last.retb = (last.reg0[last.id] = NoEntry)
          /\ last.retb => m_callbacks = [last.reg0 EXCEPT ![last.id] = last.triple]
          /\ ~last.retb => m_callbacks = last.reg0
    /\ m_callbacks = firstReg
    /\ (last.op \in CreateOps /\ last.triple # NoEntry) =>
          last.triple = firstReg[last.id]

\* a second registration of an identifier, with another triple than the first
C1_Witness ==
    /\ last.op = "register_compression"
    /\ last.reg0[last.id] # NoEntry
    /\ last.triple # last.reg0[last.id]
    /\ ~last.retb

\* C2: a create call for an identifier that is not registered fails with the
\* unsupported-format error whose message names the identifier, invokes no
\* constructor callback, issues no platform operation, makes no instance and
\* leaves the registry unchanged.
C2_UnregisteredFailsFast ==
    (last.op \in CreateOps /\ last.reg0[last.id] = NoEntry) =>
        /\ last.raised = UnsupportedErr
        /\ \E i \in 1 .. Len(last.msg) : last.msg[i] = IdName[last.id]
        /\ \A i \in 1 .. Len(last.msg), id \in Ids \ {last.id} : last.msg[i] # IdName[id]
        /\ last.triple = NoEntry
        /\ Issued = <<>>
        /\ ops = <<>>
        /\ comp = NullComp /\ dec = NullDec
        /\ m_callbacks = last.reg0

\* create_decompressor(bzip2, fd) in a program that registered gzip but not bzip2
C2_Witness ==
    /\ last.op = "create_decompressor_fd"
    /\ last.id = bzip2
    /\ last.raised = UnsupportedErr
    /\ m_callbacks[gzip] # NoEntry

\* C3: once a translation unit has run its built-in registration, `none` is
\* registered with the NoCompressor/NoDecompressor constructors and stays so:
\* a create call with `none` never fails with unsupported-format, and a later
\* registration of `none` returns false and does not replace the entry.
C3_NoneAlwaysRegistered ==
    /\ (\E tu \in TUs : tu_pc[tu] # "builtin") => m_callbacks[none] = NoTriple
    /\ (last.op \in CreateOps /\ last.id = none) =>
          /\ last.raised # UnsupportedErr
          /\ last.triple = NoTriple
    /\ (last.op = "register_compression" /\ last.id = none /\ last.reg0[none] # NoEntry) =>
          /\ ~last.retb
          /\ m_callbacks[none] = NoTriple

\* running code tried to register another triple for `none`
C3_Witness ==
    /\ Running
    /\ last.op = "register_compression"
    /\ last.id = none
    /\ last.triple \in ExtTriples
    /\ ~last.retb
    /\ m_callbacks[none] = NoTriple

CloseCalls == {"Compressor::close", "Compressor::dtor"}

\* a descriptor an instance owns: valid, and not the stdout sentinel
Owned(fd) == fd >= 0 /\ fd # StdoutFd

\* C4: once close() has been entered on a NoCompressor, every further close() is
\* a no-op: it raises nothing and issues no platform operation; over all close()
\* calls and the destructor the platform close is issued at most once.
C4_CloseIdempotent ==
    /\ (last.op \in CloseCalls /\ last.nclose.c >= 1) =>
          /\ Issued = <<>>
          /\ last.raised = NoErr
    /\ CountOps("close") <= 1
    /\ CountOps("fsync") <= 1

\* a second close() after a first close() that raised, on an owned descriptor
C4_Witness ==
    /\ last.op = "Compressor::close"
    /\ last.nclose.c = 1
    /\ comp.fd0 = 3
    /\ CountOpsOn("close", 3) = 1
    /\ ops[Len(ops)].failed

\* C5: a NoCompressor on the stdout descriptor never issues a platform fsync or
\* close, whatever the sync policy and whatever is called on it.
C5_StdoutNeverClosed ==
    comp.fd0 = StdoutFd =>
        \A i \in 1 .. Len(ops) : ops[i].op \notin {"fsync", "close"}

\* a syncing NoCompressor on stdout, written to, closed twice and destroyed
C5_Witness ==
    /\ comp.fd0 = StdoutFd
    /\ comp.class = "destroyed"
    /\ do_fsync(comp)
    /\ nclose.c >= 3
    /\ written > 0

\* C6: on an owned descriptor, with sync policy yes the first close() issues one
\* fsync, on that descriptor and before the platform close, and no other fsync is
\* ever issued; with sync policy no, no fsync is ever issued and the first close()
\* issues the platform close only.
C6_FsyncBeforeClose ==
    (comp.class # "null" /\ Owned(comp.fd0)) =>
        /\ nclose.c = 0 => CountOps("fsync") = 0 /\ CountOps("close") = 0
        /\ \A i, j \in 1 .. Len(ops) :
              (ops[i].op = "fsync" /\ ops[j].op = "close") => i < j
        /\ IF do_fsync(comp)
           THEN /\ nclose.c >= 1 => CountOpsOn("fsync", comp.fd0) = 1 /\ CountOps("fsync") = 1
                /\ (last.op \in CloseCalls /\ last.nclose.c = 0) =>
                      /\ Len(Issued) >= 1
                      /\ Issued[1].op = "fsync"
                      /\ (~Issued[1].failed) =>
                            /\ Len(Issued) = 2
                            /\ Issued[2].op = "close" /\ Issued[2].fd = comp.fd0
           ELSE /\ CountOps("fsync") = 0
                /\ (last.op \in CloseCalls /\ last.nclose.c = 0) =>
                      /\ Len(Issued) = 1
                      /\ Issued[1].op = "close" /\ Issued[1].fd = comp.fd0

\* the first close() of a syncing NoCompressor has synced and closed descriptor 3
C6_Witness ==
    /\ comp.fd0 = 3
    /\ do_fsync(comp)
    /\ last.op = "Compressor::close"
    /\ last.nclose.c = 0
    /\ Len(Issued) = 2
    /\ written > 0

\* C7: file_size() of a NoCompressor is the sum of the lengths of the chunks of
\* the write() calls that returned, at every point of its life: a write() that
\* raised does not count, and close() does not change it.
C7_FileSizeIsBytesWritten ==
    comp.class = "NoCompressor" => NoCompressor_file_size(comp) = written

\* two writes of which one failed, then two close() calls: file_size() is still 1
C7_Witness ==
    /\ comp.class = "NoCompressor"
    /\ nclose.c = 2
    /\ written = 1
    /\ CountOps("write") = 2
    /\ NoCompressor_file_size(comp) = 1

\* C8: once a NoCompressor or descriptor-backed NoDecompressor has been destroyed,
\* the platform close has been issued exactly once on the descriptor it owned,
\* whatever was called on it and whichever platform operations failed.
C8_ReleasedOnEveryPath ==
    /\ (comp.class = "destroyed" /\ Owned(comp.fd0)) =>
          CountOpsOn("close", comp.fd0) = 1
    /\ (dec.class = "destroyed" /\ Owned(dec.fd0)) =>
          CountOpsOn("close", dec.fd0) = 1

\* C9: destroying a NoCompressor or NoDecompressor raises nothing, also when the
\* fsync or close of its implicit close() fails; when close() ran before, the
\* destructor issues no platform operation.
C9_DestructorNeverRaises ==
    /\ last.op = "Compressor::dtor" =>
          /\ last.raised = NoErr
          /\ comp.class = "destroyed"
          /\ last.nclose.c >= 1 => Issued = <<>>
    /\ last.op = "Decompressor::dtor" =>
          /\ last.raised = NoErr
          /\ dec.class = "destroyed"
          /\ last.nclose.d >= 1 => Issued = <<>>

\* a destructor whose implicit close() failed in the platform
C9_Witness ==
    /\ last.op \in {"Compressor::dtor", "Decompressor::dtor"}
    /\ Issued # <<>>
    /\ Issued[Len(Issued)].failed

\* C10 as stated: a decompressor's close() never raises to the caller.
C10_CloseNeverRaises ==
    last.op = "Decompressor::close" =>
        /\ last.raised = NoErr
        /\ dec.m_fd < 0
        /\ last.nclose.d >= 1 => Issued = <<>>

\* C10 amended: close() leaves the decompressor owning no descriptor and is
\* idempotent, a second close() issuing no platform operation and raising
\* nothing; DummyDecompressor::close() never raises and issues nothing;
\* NoDecompressor::close() raises exactly when the platform close it issued
\* failed, which only the first close() of a descriptor-backed instance can.
C10_CloseIdempotentMayRaise ==
    last.op = "Decompressor::close" =>
        /\ dec.m_fd < 0
        /\ last.nclose.d >= 1 => (Issued = <<>> /\ last.raised = NoErr)
        /\ dec.class = "DummyDecompressor" => (Issued = <<>> /\ last.raised = NoErr)
        /\ (last.raised # NoErr) <=>
              (Issued # <<>> /\ Issued[Len(Issued)].op = "close"
                             /\ Issued[Len(Issued)].failed)
        /\ CountOps("close") <= 1

\* a second close() after a first close() whose platform close failed
C10_Witness ==
    /\ last.op = "Decompressor::close"
    /\ last.nclose.d = 1
    /\ dec.fd0 = 3
    /\ CountOpsOn("close", 3) = 1
    /\ ops[Len(ops)].failed
    /\ dec.offset > 0

\* a NoDecompressor made from a buffer, and one made from a descriptor
BufBacked(d) == d.class \in {"NoDecompressor", "destroyed"} /\ d.m_buffer # nullptr
FdBacked(d) == d.class \in {"NoDecompressor", "destroyed"} /\ d.m_buffer = nullptr

RECURSIVE Concat(_)
Concat(chunks) ==
    IF chunks = <<>> THEN <<>> ELSE chunks[1] \o Concat(Tail(chunks))

IssuedOps(name) == {i \in 1 .. Len(Issued) : Issued[i].op = name}

\* C11: over a buffer of length n the first read() returns the whole buffer as
\* one chunk, every later read() returns empty, and offset() is n after the first
\* read() and stays n.
C11_BufferReadOnce ==
    BufBacked(dec) =>
        /\ Len(reads) = 0 => dec.offset = 0
        /\ Len(reads) >= 1 => (reads[1] = file /\ dec.offset = Len(file))
        /\ \A i \in 2 .. Len(reads) : reads[i] = <<>>

\* three read() calls on a buffer of two bytes
C11_Witness ==
    /\ BufBacked(dec)
    /\ Len(file) = 2
    /\ Len(reads) = 3
    /\ last.op = "Decompressor::read"
    /\ last.data = <<>>
    /\ dec.offset = 2

\* C12: each read() of a descriptor-backed NoDecompressor issues one platform
\* read, asking for at most input_buffer_size bytes, returns the bytes that read
\* delivered, and advances offset() by the length of the chunk it returns; on an
\* empty source the first read() returns empty and offset() stays 0.
C12_DescriptorReadChunk ==
    FdBacked(dec) =>
        /\ dec.offset = Len(Concat(reads))
        /\ last.op = "Decompressor::read" =>
              /\ Cardinality(IssuedOps("read")) = 1
              /\ Issued[Len(Issued)].op = "read"
              /\ Issued[Len(Issued)].fd = last.dfd
              /\ Issued[Len(Issued)].n <= input_buffer_size
              /\ last.raised = NoErr =>
                    /\ last.data = Issued[Len(Issued)].data
                    /\ reads[Len(reads)] = last.data
        /\ (Len(file) = 0 /\ Len(reads) >= 1) => (reads[1] = <<>> /\ dec.offset = 0)

\* a second read() delivering the second byte of a two-byte source in its own chunk
C12_Witness ==
    /\ FdBacked(dec)
    /\ Len(file) = 2
    /\ last.op = "Decompressor::read"
    /\ last.raised = NoErr
    /\ reads = <<(<<"a">>), (<<"b">>)>>
    /\ dec.offset = 2

\* SpecSample: an owner draining a descriptor-backed NoDecompressor by read()
\* while a second thread samples its counters
InitSample == InitDecomp /\ dec.class = "NoDecompressor" /\ dec.m_buffer = nullptr /\ dec.fd0 = 3

NextSample ==
    \/ DecRead
    \/ Sample

SpecSample == InitSample /\ [][NextSample]_vars

\* made by create_decompressor(compression, fd), which found the size of the source
FactoryKnown ==
    /\ FdBacked(dec)
    /\ Len(ops) >= 1
    /\ ops[1].op = "size" /\ ops[1].n = Len(file)

\* C13 as stated: offset() <= file_size(), and offset() = file_size() exactly
\* when a read() has returned empty.
C13_EqualExactlyAtEmptyRead ==
    FactoryKnown =>
        /\ dec.offset <= dec.file_size
        /\ (dec.offset = dec.file_size) <=> SeenEnd

\* C13 amended: offset() never decreases, offset() <= file_size() always, and
\* offset() = file_size() exactly when every byte of the source has been
\* returned: from the read() that delivers the last byte on (from creation on
\* for an empty source), and so whenever a read() has returned empty.
C13_OffsetWithinSize ==
    /\ [](FactoryKnown =>
            /\ dec.offset <= dec.file_size
            /\ dec.file_size = Len(file)
            /\ (dec.offset = dec.file_size) <=> (fpos = Len(file))
            /\ SeenEnd => dec.offset = dec.file_size)
    /\ [][FactoryKnown => dec'.offset >= dec.offset]_vars

\* a two-byte source of known size drained in two chunks and an empty read()
C13_Witness ==
    /\ FactoryKnown
    /\ dec.file_size = 2
    /\ reads = <<(<<"a">>), (<<"b">>), <<>>>>
    /\ dec.offset = 2

\* the partial sums of the chunks returned: the values the owner stored in offset
Stored == {Len(Concat(SubSeq(reads, 1, j))) : j \in 0 .. Len(reads)}

\* C14: every offset() a second thread samples while the owner drains a
\* descriptor-backed NoDecompressor is a value the owner stored, the samples
\* never decrease, and a sample taken after the owner saw the end of the stream
\* is the total size of the source.
C14_SamplesMonotone ==
    /\ \A k \in 1 .. Len(samples) :
          /\ samples[k].offset \in Stored
          /\ samples[k].eos => samples[k].offset = Len(file)
    /\ \A k, l \in 1 .. Len(samples) :
          k < l => samples[k].offset <= samples[l].offset

\* a sample between the two chunks of a two-byte source and one after its end
C14_Witness ==
    /\ Len(file) = 2
    /\ Len(samples) = 2
    /\ samples[1].offset = 1 /\ ~samples[1].eos
    /\ samples[2].offset = 2 /\ samples[2].eos

\* the bytes returned by the reads before the last call
PrevReturned ==
    IF last.op = "Decompressor::read" /\ last.raised = NoErr
    THEN Len(Concat(SubSeq(reads, 1, Len(reads) - 1)))
    ELSE Len(Concat(reads))

\* C15: a read() of a descriptor-backed NoDecompressor called with the flag
\* want_buffered_pages_removed set issues the eviction hint before its platform
\* read, with the number of bytes returned by earlier reads as its offset; with
\* the flag clear, read() and close() issue no eviction hint.
C15_EvictionHintBeforeRead ==
    (FdBacked(dec) /\ last.op \in {"Decompressor::read", "Decompressor::close"}) =>
        /\ (last.op = "Decompressor::read" /\ last.want) =>
              /\ Len(Issued) = 2
              /\ Issued[1].op = "evict" /\ Issued[1].fd = last.dfd
              /\ Issued[1].n = PrevReturned
              /\ Issued[1].n <= Len(Concat(reads))
              /\ Issued[2].op = "read" /\ Issued[2].fd = last.dfd
        /\ ~last.want => IssuedOps("evict") = {}

\* the second read() with the flag set: the hint covers the first chunk
C15_Witness ==
    /\ FdBacked(dec)
    /\ last.op = "Decompressor::read" /\ last.want /\ last.raised = NoErr
    /\ Len(reads) = 2
    /\ Issued[1].op = "evict" /\ Issued[1].n = 1

\* C16: a DummyDecompressor, whatever read() and close() calls it gets: every
\* read() returns empty, is_real() is false, nothing is raised, offset() and
\* file_size() stay 0 and no platform operation is issued; a NoDecompressor
\* reports is_real() true.
C16_DummyIsInert ==
    /\ dec.class = "DummyDecompressor" =>
          /\ ~is_real(dec)
          /\ \A i \in 1 .. Len(reads) : reads[i] = <<>>
          /\ last.op \in {"Decompressor::read", "Decompressor::close"} =>
                (last.raised = NoErr /\ last.data = <<>>)
          /\ dec.offset = 0 /\ dec.file_size = 0
          /\ ops = <<>>
    /\ dec.class = "NoDecompressor" => is_real(dec)

\* a DummyDecompressor read again after two close() calls
C16_Witness ==
    /\ dec.class = "DummyDecompressor"
    /\ nclose.d = 2
    /\ Len(reads) = 2
    /\ last.op = "Decompressor::read"

\* C17: create_decompressor(compression, fd) returns an instance whose
\* file_size() is the size the platform reported for the source (0 if unknown)
\* and whose offset() is 0, having issued the size query and no platform read;
\* create_decompressor(compression, buffer, size) issues nothing and leaves
\* file_size() at 0.
C17_SizeKnownAtCreation ==
    /\ (last.op = "create_decompressor_fd" /\ last.raised = NoErr) =>
          /\ dec.class \notin {"null", "destroyed"}
          /\ Len(Issued) = 1 /\ Issued[1].op = "size"
          /\ IssuedOps("read") = {}
          /\ dec.file_size = Issued[1].n
          /\ dec.file_size \in {Len(file), 0}
          /\ dec.offset = 0
    /\ (last.op = "create_decompressor_buffer" /\ last.raised = NoErr) =>
          /\ dec.class \notin {"null", "destroyed"}
          /\ Issued = <<>>
          /\ dec.file_size = 0
          /\ dec.offset = 0

\* the factory has made a NoDecompressor over a two-byte source of known size
C17_Witness ==
    /\ last.op = "create_decompressor_fd" /\ last.raised = NoErr
    /\ dec.class = "NoDecompressor"
    /\ Len(file) = 2
    /\ dec.file_size = 2

\* SpecRound: a file written through a NoCompressor and read back through a
\* NoDecompressor
InitRound == InitComp /\ comp.fd0 = 3

NextRound ==
    \/ NextComp
    \/ Reopen
    \/ DecRead

SpecRound == InitRound /\ [][NextRound]_vars

\* the chunks read() returned before its first empty result, concatenated
UpToFirstEmpty ==
    IF SeenEnd
    THEN Concat(SubSeq(reads, 1,
             (CHOOSE i \in 1 .. Len(reads) :
                  reads[i] = <<>> /\ \A j \in 1 .. i - 1 : reads[j] # <<>>) - 1))
    ELSE Concat(reads)

IsPrefix(s, t) == Len(s) <= Len(t) /\ s = SubSeq(t, 1, Len(s))

\* C18: the no-op pair is the identity: a write() that succeeds hands exactly
\* its chunk to one platform write on the descriptor, and the chunks read()
\* returns up to its first empty result, concatenated, are the content of the
\* source, so reading back what was written returns the bytes written.
C18_IdentityTransform ==
    /\ (last.op = "Compressor::write" /\ last.raised = NoErr) =>
          /\ Len(Issued) = 1
          /\ Issued[1].op = "write" /\ Issued[1].fd = last.cfd
          /\ Issued[1].data = last.data
    /\ dec.class = "NoDecompressor" =>
          /\ IsPrefix(UpToFirstEmpty, file)
          /\ SeenEnd => (UpToFirstEmpty = file /\ UpToFirstEmpty = Delivered(ops, comp.fd0))

\* two one-byte chunks written, read back from the descriptor to the end
C18_Witness ==
    /\ comp.class = "destroyed" /\ written = 2
    /\ FdBacked(dec)
    /\ SeenEnd
    /\ UpToFirstEmpty = <<"a", "b">>

\* the platform operations of the last call that failed
IssuedFailed(name) == {i \in IssuedOps(name) : Issued[i].failed}

\* C19: when the platform write fails inside NoCompressor::write, or the
\* platform read inside NoDecompressor::read, the operation was issued once and
\* not again, the error reaches the caller, and the instance is as it was before
\* the call: file_size(), respectively offset(), is unchanged and the descriptor
\* it owned is still owned and has not been closed.
C19_FailedIoLeavesStateIntact ==
    /\ (last.op = "Compressor::write" /\ IssuedFailed("write") # {}) =>
          /\ Cardinality(IssuedOps("write")) = 1
          /\ last.raised = SysErr
          /\ comp = last.c0
          /\ NoCompressor_file_size(comp) = written
          /\ comp.m_fd = last.cfd
          /\ IssuedOps("close") = {}
    /\ (last.op = "Decompressor::read" /\ IssuedFailed("read") # {}) =>
          /\ Cardinality(IssuedOps("read")) = 1
          /\ last.raised = SysErr
          /\ dec = last.d0
          /\ dec.offset = Len(Concat(reads))
          /\ dec.m_fd = last.dfd
          /\ IssuedOps("close") = {}

\* a read() that failed in the platform after a chunk had been returned: the
\* offset is still 1 and the descriptor still owned
C19_Witness ==
    /\ last.op = "Decompressor::read" /\ last.raised = SysErr
    /\ IssuedFailed("read") # {}
    /\ dec.m_fd = 3
    /\ dec.offset = 1 /\ Len(reads) = 1

\* the calls made on an instance after close() was entered on it
AfterClose ==
    \/ /\ last.op \in {"Compressor::write", "Compressor::close", "Compressor::dtor"}
       /\ last.nclose.c >= 1
       /\ comp.fd0 >= 0
    \/ /\ last.op \in {"Decompressor::read", "Decompressor::close", "Decompressor::dtor"}
       /\ last.nclose.d >= 1
       /\ FdBacked(dec) /\ dec.fd0 >= 0

Fd0 == IF comp.class # "null" THEN comp.fd0 ELSE dec.fd0

\* C20: once close() has been entered on a NoCompressor or a descriptor-backed
\* NoDecompressor, no later write(), read(), close() or destructor of that
\* instance issues a platform operation on the descriptor it was constructed
\* with.
C20_NoUseAfterClose ==
    AfterClose => \A i \in 1 .. Len(Issued) : Issued[i].fd # Fd0

\* a read() after close(): its platform read is issued, but not on descriptor 3
C20_Witness ==
    /\ AfterClose
    /\ last.op = "Decompressor::read"
    /\ dec.fd0 = 3
    /\ Issued # <<>>

\* a NoDecompressor made by NoDecompressor(buffer, size): m_fd keeps its default;
\* a null pointer comes with length 0
BufferMade(d) ==
    /\ d.class \in {"NoDecompressor", "destroyed"}
    /\ d.triple = NoTriple
    /\ d.fd0 = -1
    /\ d.m_buffer # nullptr \/ file = <<>>

\* C21: a NoDecompressor constructed from a buffer, whatever the pointer and the
\* length, never issues a platform operation: no read and no eviction hint in
\* read(), no eviction hint and no close in close() and the destructor.
C21_BufferNeverTouchesPlatform ==
    BufferMade(dec) => ops = <<>>

\* the NoDecompressor a failed create_decompressor(compression, fd) made and dropped
FailedCreation ==
    /\ last.op = "create_decompressor_fd"
    /\ last.raised # NoErr
    /\ last.triple = NoTriple

\* C22: when the size query fails in create_decompressor(compression, fd) after
\* the callback made a NoDecompressor, the error reaches the caller, nothing is
\* returned, and the instance is destroyed: the platform close is issued on the
\* descriptor exactly once, after the query, whether or not it succeeds.
C22_FailedCreationCloses ==
    FailedCreation =>
        /\ last.raised = SysErr /\ ~last.retb
        /\ dec.class = "destroyed" /\ dec.m_fd = -1
        /\ Issued[1].op = "size" /\ Issued[1].failed
        /\ dec.fd0 >= 0 =>
              /\ Len(Issued) = 2
              /\ Issued[2].op = "close" /\ Issued[2].fd = dec.fd0
              /\ CountOpsOn("close", dec.fd0) = 1
        /\ dec.fd0 < 0 => Len(Issued) = 1

\* the size query on descriptor 3 failed and the close issued after it failed too
C22_Witness ==
    /\ FailedCreation
    /\ dec.fd0 = 3
    /\ Len(Issued) = 2
    /\ Issued[2].op = "close" /\ Issued[2].failed

====
